---- MODULE Spec2Model ----
(***************************************************************************)
(* GEO Analyzer (geo_analyzer_app.py): one Streamlit script.  A click on   *)
(* "Analyze Now" fetches the page, runs the scoring engine over the parsed *)
(* document, classifies the final score into a grade and a priority, shows *)
(* the result and builds the PDF report.                                   *)
(***************************************************************************)
EXTENDS Integers, Sequences, FiniteSets

(***************************************************************************)
(* Binary floating point.  final_score is computed in IEEE doubles:        *)
(*   round(tech_score*0.4 + structure_score*0.35 + authority_score*0.25, 1)*)
(* Every double that occurs is a multiple of 2^-54 below 2^10, so a double *)
(* is held exactly as a 4-limb little-endian number in base 2^18 counting  *)
(* units of 2^-54: limbs 1..3 are the fraction, limb 4 the integer part.   *)
(***************************************************************************)
LimbBase == 262144

Limbs == 4

\* carry propagation: every limb but the last is reduced below LimbBase
Normalize(x) ==
    LET c1 == x[1] \div LimbBase
        l2 == x[2] + c1
        c2 == l2 \div LimbBase
        l3 == x[3] + c2
        c3 == l3 \div LimbBase
    IN  << x[1] % LimbBase, l2 % LimbBase, l3 % LimbBase, x[4] + c3 >>

\* exact product of a double by a small integer (before rounding)
MulSmall(x, n) == Normalize([i \in 1..Limbs |-> x[i] * n])

\* exact sum of two doubles (before rounding)
AddExact(x, y) == Normalize([i \in 1..Limbs |-> x[i] + y[i]])

RECURSIVE BitLength(_)
\* number of binary digits of n (0 for n = 0)
BitLength(n) == IF n = 0 THEN 0 ELSE 1 + BitLength(n \div 2)

RECURSIVE Pow2(_)
Pow2(k) == IF k = 0 THEN 1 ELSE 2 * Pow2(k - 1)

\* number of binary digits of the whole 4-limb number
TotalBits(x) ==
    IF x[4] # 0 THEN 54 + BitLength(x[4])
    ELSE IF x[3] # 0 THEN 36 + BitLength(x[3])
    ELSE IF x[2] # 0 THEN 18 + BitLength(x[2])
    ELSE BitLength(x[1])

\* significand width of an IEEE double
MantissaBits == 53

\* round-to-nearest-even to a 53-bit significand: the result of one double
\* multiplication or addition whose exact value is x
RoundToDouble(x) ==
    LET k    == TotalBits(x) - MantissaBits
        ulp  == Pow2(k)
        rem  == x[1] % ulp
        odd  == (x[1] \div ulp) % 2 = 1
        down == [x EXCEPT ![1] = x[1] - rem]
        up   == Normalize([x EXCEPT ![1] = x[1] - rem + ulp])
    IN  IF k <= 0 \/ rem = 0 THEN x
        ELSE IF 2 * rem > ulp \/ (2 * rem = ulp /\ odd) THEN up
        ELSE down

\* the double nearest to the literal 0.4  (0x3FD999999999999A)
W_TECH == << 104858, 157286, 104857, 0 >>

\* the double nearest to the literal 0.35 (0x3FD6666666666666)
W_STRUCTURE == << 157286, 104857, 91750, 0 >>

\* the literal 0.25, exact
W_AUTHORITY == << 0, 0, 65536, 0 >>

\* the weights of the technical and the structure score exchanged
WeightedSumSwapped(t, s, a) ==
    LET pt == RoundToDouble(MulSmall(W_STRUCTURE, t))
        ps == RoundToDouble(MulSmall(W_TECH, s))
        pa == RoundToDouble(MulSmall(W_AUTHORITY, a))
    IN  RoundToDouble(AddExact(RoundToDouble(AddExact(pt, ps)), pa))

\* tech_score*0.4 + structure_score*0.35 + authority_score*0.25, evaluated
\* left to right, each operation rounded to a double
WeightedSum(t, s, a) ==
    LET pt == RoundToDouble(MulSmall(W_TECH, t))
        ps == RoundToDouble(MulSmall(W_STRUCTURE, s))
        pa == RoundToDouble(MulSmall(W_AUTHORITY, a))
    IN  RoundToDouble(AddExact(RoundToDouble(AddExact(pt, ps)), pa))

\* Python round(x, 1): the exact value of the double x rounded to the nearest
\* tenth, exact ties to the even tenth.  The result is the number of tenths;
\* final_score is the double nearest to that many tenths, which compares with
\* the integer thresholds exactly as the tenths compare with ten times them.
RoundOneDecimal(x) ==
    LET y    == MulSmall(x, 10)
        q    == y[4]
        half == LimbBase \div 2
        above == y[3] > half \/ (y[3] = half /\ (y[2] > 0 \/ y[1] > 0))
        tie   == y[3] = half /\ y[2] = 0 /\ y[1] = 0
    IN  IF above \/ (tie /\ q % 2 = 1) THEN q + 1 ELSE q

\* line 84
FinalScore(t, s, a) == RoundOneDecimal(WeightedSum(t, s, a))

(***************************************************************************)
(* The fetched page.  soup is the parsed document as the engine queries    *)
(* it, text is soup.get_text() as the engine searches it:                  *)
(*   soup.ldjson     a <script type="application/ld+json"> exists          *)
(*   soup.semantic   an <article>, <section> or <main> exists              *)
(*   soup.h1         an <h1> exists                                        *)
(*   soup.headings   number of <h1>..<h6> elements                         *)
(*   soup.longParas  number of <p> with more than 80 words                 *)
(*   soup.tables     a <table> or <dl> exists                              *)
(*   soup.lists      a <ul> or <ol> exists                                 *)
(*   soup.hrefs      for each netloc, the number of <a href> with it       *)
(*   soup.badge      an element with src matching badge|cert|trust exists  *)
(*   text.date       text matches \d{4}-\d{2}-\d{2}|202[4-9]               *)
(*   text.faq        "faq" occurs in text.lower()                          *)
(*   text.byline     "by ", "author", "phd" or "engineer" occurs in it     *)
(***************************************************************************)
MaxHeadings == 4

MaxLongParas == 3

\* numbers of anchors per netloc that are tried
LinkCounts == {0, 4, 9}

\* the host the user analyses
SiteHosts == {"a.example"}

\* urlparse(href).netloc of an anchor: "" for a relative link ("/about",
\* "#top", "mailto:..."), else the host it names
HrefHosts == {"", "a.example", "b.example"}

Soups(bools, h1s, headingCounts, paraCounts, linkCounts) ==
    { s \in [ldjson : bools, semantic : bools, h1 : h1s,
             headings : headingCounts, longParas : paraCounts,
             tables : bools, lists : bools,
             hrefs : [HrefHosts -> linkCounts], badge : bools] :
        s.h1 => s.headings >= 1 }

Texts(bools) == [date : bools, faq : bools, byline : bools]

\* Every rule of the engine reads one feature of the page only, so the pages
\* tried are: every combination of the eleven rule outcomes, the counted
\* features just below and just above the rule's threshold ...
OutcomePages ==
    { [soup |-> s, text |-> t] :
        s \in { x \in Soups(BOOLEAN, BOOLEAN, {3, 4}, {2, 3}, {0, 9}) :
                  /\ x.h1 = (x.headings = 4)
                  /\ x.hrefs[""] = 0 /\ x.hrefs["a.example"] = 0 },
        t \in Texts(BOOLEAN) }

\* ... and every shape of headings, paragraphs and anchors on a page that has
\* all or none of the other features.
ShapePages ==
    UNION { { [soup |-> s, text |-> t] :
                s \in Soups({b}, BOOLEAN, 0..MaxHeadings, 0..MaxLongParas,
                            LinkCounts),
                t \in Texts({b}) } : b \in BOOLEAN }

Pages == OutcomePages \cup ShapePages

\* BeautifulSoup("") : no element, empty text
EmptySoup ==
    [ldjson |-> FALSE, semantic |-> FALSE, h1 |-> FALSE, headings |-> 0,
     longParas |-> 0, tables |-> FALSE, lists |-> FALSE,
     hrefs |-> [h \in HrefHosts |-> 0], badge |-> FALSE]

EmptyText == [date |-> FALSE, faq |-> FALSE, byline |-> FALSE]

\* what requests.get / raise_for_status can end in
FetchFailures == {"http_error", "timeout", "connection_error"}

Responses ==
    { [status |-> "ok", soup |-> p.soup, text |-> p.text] : p \in Pages }
    \cup { [status |-> f, soup |-> EmptySoup, text |-> EmptyText] :
             f \in FetchFailures }

(***************************************************************************)
(* Scoring engine, lines 50-84.                                            *)
(***************************************************************************)
HasStructuredData(soup) == soup.ldjson

HasSemanticSectioning(soup) == soup.semantic

HasGoodHeadingStructure(soup) == soup.h1 /\ soup.headings > 3

HasRecentDateMention(text) == text.date

\* the comparison turned round
HasReasonableParagraphLengthInverted(soup) == soup.longParas >= 3

HasReasonableParagraphLength(soup) == soup.longParas < 3

HasTabularOrDefinitionContent(soup) == soup.tables

HasListContent(soup) == soup.lists

MentionsFaq(text) == text.faq

MentionsAuthorCredential(text) == text.byline

RECURSIVE SumOver(_, _)
SumOver(f, S) ==
    IF S = {} THEN 0
    ELSE LET h == CHOOSE x \in S : TRUE IN f[h] + SumOver(f, S \ {h})

\* len([a for a in soup.find_all("a", href=True)
\*      if urlparse(a["href"]).netloc != urlparse(url).netloc])
External(soup, url) == SumOver(soup.hrefs, { h \in HrefHosts : h # url })

HasExternalLinks(external) == external > 8

\* the badge rule passing on every page
HasTrustBadgeImageAlways(soup) == TRUE

HasTrustBadgeImage(soup) == soup.badge

\* "if cond: score += pts"
Award(cond, pts) == IF cond THEN pts ELSE 0

\* "else: issues.append((issue, effort))"
Report(cond, issue, effort) == IF cond THEN << >> ELSE << <<issue, effort>> >>

\* the heading issue appended before the semantic-HTML issue
TechnicalSwapped(soup, text) ==
    [score |->   Award(HasStructuredData(soup), 35)
               + Award(HasSemanticSectioning(soup), 20)
               + Award(HasGoodHeadingStructure(soup), 20)
               + Award(HasRecentDateMention(text), 15)
               + Award(HasReasonableParagraphLength(soup), 10),
     issues |->
          Report(HasStructuredData(soup), "No JSON-LD structured data", "Quick")
       \o Report(HasGoodHeadingStructure(soup), "Fix heading hierarchy", "Moderate")
       \o Report(HasSemanticSectioning(soup), "Limited semantic HTML", "Moderate")
       \o Report(HasRecentDateMention(text), "Add publish/update date", "Quick")]

Technical(soup, text) ==
    [score |->   Award(HasStructuredData(soup), 35)
               + Award(HasSemanticSectioning(soup), 20)
               + Award(HasGoodHeadingStructure(soup), 20)
               + Award(HasRecentDateMention(text), 15)
               + Award(HasReasonableParagraphLength(soup), 10),
     issues |->
          Report(HasStructuredData(soup), "No JSON-LD structured data", "Quick")
       \o Report(HasSemanticSectioning(soup), "Limited semantic HTML", "Moderate")
       \o Report(HasGoodHeadingStructure(soup), "Fix heading hierarchy", "Moderate")
       \o Report(HasRecentDateMention(text), "Add publish/update date", "Quick")]

\* the FAQ rule without its else branch
StructureNoFaqIssue(soup, text) ==
    [score |->   Award(HasTabularOrDefinitionContent(soup), 40)
               + Award(HasListContent(soup), 25)
               + Award(MentionsFaq(text), 35),
     issues |->
          Report(HasTabularOrDefinitionContent(soup), "Add spec/comparison tables", "Moderate")
       \o Report(HasListContent(soup), "Use bullet/numbered lists", "Quick")]

Structure(soup, text) ==
    [score |->   Award(HasTabularOrDefinitionContent(soup), 40)
               + Award(HasListContent(soup), 25)
               + Award(MentionsFaq(text), 35),
     issues |->
          Report(HasTabularOrDefinitionContent(soup), "Add spec/comparison tables", "Moderate")
       \o Report(HasListContent(soup), "Use bullet/numbered lists", "Quick")
       \o Report(MentionsFaq(text), "Add FAQ section", "Moderate")]

Authority(soup, text, url) ==
    LET external == External(soup, url) IN
    [score |->   Award(MentionsAuthorCredential(text), 40)
               + Award(HasExternalLinks(external), 35)
               + Award(HasTrustBadgeImage(soup), 25),
     issues |->
          Report(MentionsAuthorCredential(text), "Add author byline + credentials", "Quick")
       \o Report(HasExternalLinks(external), "Link to reputable sources", "Moderate"),
     external |-> external]

(***************************************************************************)
(* Grade and priority, lines 86-90.  final_score is in tenths.             *)
(***************************************************************************)
\* a set literal: Python visits its elements in hash order, and the hash of a
\* tuple holding a str changes with the interpreter's hash seed
grades ==
    { <<94, "A+">>, <<87, "A">>, <<80, "A-">>, <<77, "B+">>, <<73, "B">>,
      <<70, "B-">>, <<67, "C+">>, <<63, "C">>, <<60, "C-">> }

RECURSIVE Descending(_)
Descending(S) ==
    IF S = {} THEN << >>
    ELSE LET top == CHOOSE e \in S : \A o \in S : o[1] <= e[1]
         IN  <<top>> \o Descending(S \ {top})

\* Orders in which the set may be visited.  next() returns the first visited
\* entry that matches, so its result depends only on which matching entry
\* comes first: one order per entry that visits that entry first gives every
\* result any of the 9! orders can give.
VisitOrders == { <<e>> \o Descending(grades \ {e}) : e \in grades }

RECURSIVE FirstMatch(_, _)
\* next((g for s,g in grades if final_score >= s), "F")
FirstMatch(order, final_score) ==
    IF order = << >> THEN "F"
    ELSE IF final_score >= 10 * Head(order)[1] THEN Head(order)[2]
    ELSE FirstMatch(Tail(order), final_score)

Grade(order, final_score) == FirstMatch(order, final_score)

\* every cutoff compared with <= : a boundary score falls in the lower bucket
PriorityInclusive(final_score) ==
    IF final_score <= 600 THEN "URGENT"
    ELSE IF final_score <= 750 THEN "HIGH"
    ELSE IF final_score <= 850 THEN "MEDIUM"
    ELSE "LOW"

\* the URGENT cutoff at 63 instead of 60
PriorityUrgentBelow63(final_score) ==
    IF final_score < 630 THEN "URGENT"
    ELSE IF final_score < 750 THEN "HIGH"
    ELSE IF final_score < 850 THEN "MEDIUM"
    ELSE "LOW"

Priority(final_score) ==
    IF final_score < 600 THEN "URGENT"
    ELSE IF final_score < 750 THEN "HIGH"
    ELSE IF final_score < 850 THEN "MEDIUM"
    ELSE "LOW"

(***************************************************************************)
(* One run of the script after a click on "Analyze Now", lines 35-132.     *)
(***************************************************************************)
\* issues[:10]
FirstTen(issues) == SubSeq(issues, 1, IF Len(issues) < 10 THEN Len(issues) ELSE 10)

\* the state a run starts from: nothing fetched, computed or shown
Blank ==
    [pc |-> "idle", fetch |-> "none", requests |-> 0, error |-> FALSE,
     soup |-> EmptySoup, text |-> EmptyText,
     tech_score |-> 0, structure_score |-> 0, authority_score |-> 0,
     issues |-> << >>, external |-> 0, final_score |-> 0,
     grade |-> "", priority |-> "", shown |-> << >>, pdf_data |-> << >>]

\* the state a run ends in when the try block raised: st.error, st.stop
Stopped(url, r) ==
    [Blank EXCEPT !.pc = "stopped", !.fetch = r.status, !.requests = 1,
                  !.error = TRUE]

\* the state a run ends in when the page was fetched and parsed
Analyzed(url, r, order) ==
    LET tech      == Technical(r.soup, r.text)
        structure == Structure(r.soup, r.text)
        authority == Authority(r.soup, r.text, url)
        issues_   == tech.issues \o structure.issues \o authority.issues
        final     == FinalScore(tech.score, structure.score, authority.score)
        grade_    == Grade(order, final)
        priority_ == Priority(final)
    IN  [pc |-> "done", fetch |-> "ok", requests |-> 1, error |-> FALSE,
         soup |-> r.soup, text |-> r.text,
         tech_score |-> tech.score, structure_score |-> structure.score,
         authority_score |-> authority.score,
         issues |-> issues_, external |-> authority.external,
         final_score |-> final, grade |-> grade_, priority |-> priority_,
         shown |-> << [final_score |-> final, grade |-> grade_,
                       priority |-> priority_, tech_score |-> tech.score,
                       structure_score |-> structure.score,
                       authority_score |-> authority.score,
                       issues |-> FirstTen(issues_)] >>,
         pdf_data |-> << [url |-> url, final_score |-> final, grade |-> grade_,
                          priority |-> priority_, issues |-> issues_] >>]

\* the except branch without st.stop(): the run goes on over an empty page
RunScriptNoStop(url, r, order) ==
    IF r.status = "ok" THEN Analyzed(url, r, order)
    ELSE [Analyzed(url, r, order) EXCEPT !.fetch = r.status, !.error = TRUE]

RunScript(url, r, order) ==
    IF r.status = "ok" THEN Analyzed(url, r, order) ELSE Stopped(url, r)

VARIABLES
    pc,               \* "idle": page waits for a click; "done"; "stopped"
    url,              \* host of the URL in the text input ("" when empty)
    fetch,            \* how requests.get ended in this run ("none" before)
    requests,         \* number of requests.get calls of this run
    error,            \* st.error is on the page
    soup, text,       \* the parsed page
    tech_score, structure_score, authority_score,
    issues, external,
    final_score,      \* in tenths
    grade, priority,
    shown,            \* << >> or the one result block on the page
    pdf_data          \* << >> or the one PDF report built

vars == << pc, url, fetch, requests, error, soup, text, tech_score,
           structure_score, authority_score, issues, external, final_score,
           grade, priority, shown, pdf_data >>

Init ==
    /\ pc = "idle" /\ url = ""
    /\ fetch = "none" /\ requests = 0 /\ error = FALSE
    /\ soup = EmptySoup /\ text = EmptyText
    /\ tech_score = 0 /\ structure_score = 0 /\ authority_score = 0
    /\ issues = << >> /\ external = 0 /\ final_score = 0
    /\ grade = "" /\ priority = ""
    /\ shown = << >> /\ pdf_data = << >>

Becomes(n) ==
    /\ pc' = n.pc /\ fetch' = n.fetch /\ requests' = n.requests
    /\ error' = n.error /\ soup' = n.soup /\ text' = n.text
    /\ tech_score' = n.tech_score /\ structure_score' = n.structure_score
    /\ authority_score' = n.authority_score /\ issues' = n.issues
    /\ external' = n.external /\ final_score' = n.final_score
    /\ grade' = n.grade /\ priority' = n.priority
    /\ shown' = n.shown /\ pdf_data' = n.pdf_data

\* the user types a URL into the text input (line 33)
EnterUrl ==
    /\ pc = "idle"
    /\ \E u \in SiteHosts : url' = u
    /\ UNCHANGED << pc, fetch, requests, error, soup, text, tech_score,
                    structure_score, authority_score, issues, external,
                    final_score, grade, priority, shown, pdf_data >>

\* the user clicks "Analyze Now" and the script runs to its end; an empty URL
\* cannot be fetched
AnalyzeNow ==
    /\ pc = "idle"
    /\ \E r \in Responses, order \in VisitOrders :
          /\ url = "" => r.status # "ok"
          /\ Becomes(RunScript(url, r, order))
    /\ UNCHANGED url

\* any other interaction reruns the script with the button not clicked:
\* the page is drawn anew without a result
Rerun ==
    /\ pc # "idle"
    /\ Becomes(Blank)
    /\ UNCHANGED url

Next == EnterUrl \/ AnalyzeNow \/ Rerun

Spec == Init /\ [][Next]_vars

(***************************************************************************)
(* Classification alone: lines 87-89 applied to any score in [0, 100].     *)
(***************************************************************************)
MaxScoreTenths == 1000

Classify ==
    /\ pc = "idle"
    /\ \E fs \in 0..MaxScoreTenths, order \in VisitOrders :
          /\ final_score' = fs
          /\ grade' = Grade(order, fs)
          /\ priority' = Priority(fs)
    /\ pc' = "classified"
    /\ UNCHANGED << url, fetch, requests, error, soup, text, tech_score,
                    structure_score, authority_score, issues, external,
                    shown, pdf_data >>

SpecClassify == Init /\ [][Classify]_vars

(***************************************************************************)
(* Properties.                                                             *)
(***************************************************************************)
\* the letter of the highest threshold that is <= the score, F below all
HighestGrade(fs) ==
    LET reached == { e \in grades : 10 * e[1] <= fs }
    IN  IF reached = {} THEN "F"
        ELSE (CHOOSE e \in reached : \A o \in reached : o[1] <= e[1])[2]

\* C1: the grade of every result is the letter of the highest threshold that
\* is <= finalScore (F only below 60), whatever the order the thresholds are
\* visited in.
C1_GradeIsHighestThreshold ==
    pc = "done" => grade = HighestGrade(final_score)

\* the weighted sum in hundredths, exactly
Hundredths == 40 * tech_score + 35 * structure_score + 25 * authority_score

\* C2: each of the three sub-scores lies in 0..100, finalScore is a tenth
\* nearest to 0.40*technical + 0.35*structure + 0.25*authority, and lies in
\* [0, 100].
C2_SubScoresAndWeightedSum ==
    pc = "done" =>
        /\ tech_score \in 0..100
        /\ structure_score \in 0..100
        /\ authority_score \in 0..100
        /\ 10 * final_score - Hundredths \in -5..5
        /\ final_score \in 0..1000

\* a result whose exact weighted sum lies midway between two tenths
C2_Witness ==
    /\ pc = "done"
    /\ Hundredths % 10 = 5
    /\ tech_score = 100 /\ structure_score = 65 /\ authority_score = 0

EmptyMarkup == soup = EmptySoup /\ text = EmptyText

\* C3 as stated: empty markup scores 0 in every category, 0.0, F, URGENT.
C3_EmptyMarkupScoresZero ==
    (pc = "done" /\ EmptyMarkup) =>
        /\ tech_score = 0 /\ structure_score = 0 /\ authority_score = 0
        /\ final_score = 0 /\ grade = "F" /\ priority = "URGENT"

\* C3 amended: empty markup has no paragraph over 80 words, so the paragraph
\* rule passes: technicalScore = 10, structureScore = 0, authorityScore = 0,
\* finalScore = 4.0, grade F, priority URGENT.
C3_EmptyMarkupScoresFour ==
    (pc = "done" /\ EmptyMarkup) =>
        /\ tech_score = 10 /\ structure_score = 0 /\ authority_score = 0
        /\ external = 0
        /\ final_score = 40 /\ grade = "F" /\ priority = "URGENT"

C3_Witness == pc = "done" /\ EmptyMarkup /\ final_score = 40

\* the issue texts of the rule table, in table order
IssueTable ==
    << "No JSON-LD structured data", "Limited semantic HTML",
       "Fix heading hierarchy", "Add publish/update date",
       "Add spec/comparison tables", "Use bullet/numbered lists",
       "Add FAQ section", "Add author byline + credentials",
       "Link to reputable sources" >>

IssueTexts == { IssueTable[k] : k \in 1..Len(IssueTable) }

\* the rules of the table, and those that have no issue text
Rules ==
    { "hasStructuredData", "hasSemanticSectioning", "hasGoodHeadingStructure",
      "hasRecentDateMention", "hasReasonableParagraphLength",
      "hasTabularOrDefinitionContent", "hasListContent", "mentionsFaq",
      "mentionsAuthorCredential", "externalLinkCount", "hasTrustBadgeImage" }

SilentRules == { "hasReasonableParagraphLength", "hasTrustBadgeImage" }

Occurrences(t) == Cardinality({ i \in 1..Len(issues) : issues[i][1] = t })

\* C4 as stated: for empty markup the issue list holds one entry per rule
\* that has an issue text, 8 entries in all.
C4_EmptyMarkupEightIssues ==
    (pc = "done" /\ EmptyMarkup) =>
        /\ \A t \in IssueTexts : Occurrences(t) = 1
        /\ Len(issues) = 8

\* C4 amended: for empty markup the issue list holds one entry per rule that
\* has an issue text, 9 entries in all (11 rules, 2 of them without text).
C4_EmptyMarkupNineIssues ==
    (pc = "done" /\ EmptyMarkup) =>
        /\ \A t \in IssueTexts : Occurrences(t) = 1
        /\ Len(issues) = 9
        /\ Len(issues) = Cardinality(Rules \ SilentRules)
        /\ Cardinality(SilentRules) = 2

C4_Witness == pc = "done" /\ EmptyMarkup /\ Len(issues) = 9

\* anchors whose href names a host, and one other than the page's
ForeignAnchors ==
    SumOver(soup.hrefs, { h \in HrefHosts : h # "" /\ h # url })

\* C5: externalLinkCount counts the anchors whose host differs from the
\* page's host, anchors without a host (relative links) excluded; a page
\* whose anchors are all relative or same-host counts 0 and fails the link
\* rule.
C5_ExternalExcludesRelative ==
    pc = "done" =>
        /\ external = ForeignAnchors
        /\ ForeignAnchors = 0 =>
              \E i \in 1..Len(issues) : issues[i][1] = "Link to reputable sources"

\* whether the rule an issue text belongs to failed on the page analysed
RuleFailed(t) ==
    CASE t = "No JSON-LD structured data" -> ~soup.ldjson
      [] t = "Limited semantic HTML" -> ~soup.semantic
      [] t = "Fix heading hierarchy" -> ~(soup.h1 /\ soup.headings >= 4)
      [] t = "Add publish/update date" -> ~text.date
      [] t = "Add spec/comparison tables" -> ~soup.tables
      [] t = "Use bullet/numbered lists" -> ~soup.lists
      [] t = "Add FAQ section" -> ~text.faq
      [] t = "Add author byline + credentials" -> ~text.byline
      [] t = "Link to reputable sources" -> external <= 8

Rank(t) == CHOOSE k \in 1..Len(IssueTable) : IssueTable[k] = t

\* C6: the issue list holds exactly one entry for each failed rule that has
\* an issue text, none for a passed rule or a rule without text, and the
\* entries stand in table order.
C6_IssuesInTableOrder ==
    pc = "done" =>
        /\ \A i \in 1..Len(issues) : issues[i][1] \in IssueTexts
        /\ \A t \in IssueTexts : Occurrences(t) = IF RuleFailed(t) THEN 1 ELSE 0
        /\ \A i, j \in 1..Len(issues) :
              i < j => Rank(issues[i][1]) < Rank(issues[j][1])

C6_Witness ==
    /\ pc = "done"
    /\ issues = << <<"Limited semantic HTML", "Moderate">>,
                   <<"Fix heading hierarchy", "Moderate">>,
                   <<"Add FAQ section", "Moderate">>,
                   <<"Link to reputable sources", "Moderate">> >>

\* the outcome of each of the eleven rules on the page analysed
Passed ==
    << soup.ldjson, soup.semantic, soup.h1 /\ soup.headings >= 4, text.date,
       soup.longParas <= 2, soup.tables, soup.lists, text.faq, text.byline,
       external >= 9, soup.badge >>

\* C7: finalScore is 0 exactly when all eleven rules fail and 100 exactly
\* when all eleven pass.
C7_ZeroAndHundred ==
    pc = "done" =>
        /\ final_score = 0 <=> \A k \in 1..11 : ~Passed[k]
        /\ final_score = 1000 <=> \A k \in 1..11 : Passed[k]

C7_Witness == pc = "done" /\ final_score = 0 /\ soup.longParas = 3

\* C8: priority is URGENT below 60, HIGH from 60 to below 75, MEDIUM from 75
\* to below 85 and LOW from 85; a boundary score is in the higher bucket.
C8_PriorityBuckets ==
    pc = "classified" =>
        /\ final_score < 600 <=> priority = "URGENT"
        /\ (600 <= final_score /\ final_score < 750) <=> priority = "HIGH"
        /\ (750 <= final_score /\ final_score < 850) <=> priority = "MEDIUM"
        /\ 850 <= final_score <=> priority = "LOW"

C8_Witness == pc = "classified" /\ final_score = 750 /\ priority = "MEDIUM"

NothingProduced ==
    /\ shown = << >> /\ pdf_data = << >>
    /\ grade = "" /\ priority = "" /\ issues = << >>
    /\ tech_score = 0 /\ structure_score = 0 /\ authority_score = 0
    /\ final_score = 0

\* C9: a failed fetch puts the error on the page and stops the run: one
\* request only, and no score, grade, priority, issue list or PDF; a result
\* exists only after a successful fetch.
C9_FetchFailureAborts ==
    /\ fetch \in FetchFailures =>
          pc = "stopped" /\ error /\ requests = 1 /\ NothingProduced
    /\ ~NothingProduced => (fetch = "ok" /\ ~error /\ requests = 1)
    /\ pc = "done" => (shown # << >> /\ pdf_data # << >>)

C9_Witness == pc = "stopped" /\ fetch = "timeout" /\ error /\ requests = 1

\* C10: grade is F exactly when priority is URGENT, both exactly when
\* finalScore < 60, whatever the order the thresholds are visited in.
C10_FailingBandAgrees ==
    pc = "done" =>
        /\ grade = "F" <=> priority = "URGENT"
        /\ grade = "F" <=> final_score < 600

\* a result graded out of threshold order, outside the failing band
C10_Witness ==
    /\ pc = "done" /\ final_score >= 940
    /\ grade = "C-" /\ priority = "LOW"
====
